---------------------------- MODULE Spec2Model ----------------------------
(***************************************************************************)
(* A model of SAMACHAR+ (src/App.py): the RSS fetch with its retry loop    *)
(* and the two nested st.cache_data caches, the sidebar of main() with the *)
(* "Refresh All News" button and the auto-refresh checkbox, display_news   *)
(* with its per-item helpers, and the pure helpers highlight,              *)
(* get_sentiment, safe_article_parse and fetch_news_poster.                *)
(*                                                                         *)
(* Strings are sequences of atoms.  Time is counted in ticks of 1.5 s, the *)
(* retry delay of fetch_rss, so the 300 s time-to-live is 200 ticks; the   *)
(* clock itself is not kept, only the age of what the caches hold.         *)
(***************************************************************************)
EXTENDS Integers, Sequences, FiniteSets, TLC

VARIABLES
    rssCache,   \* st.cache_data of fetch_rss, keyed by url
    wrapCache,  \* st.cache_data of fetch_top_news / fetch_category_news / fetch_news_search_topic, keyed by (function, argument)
    netAt,      \* history: per url, how long ago fetch_rss's body last returned and what
    clears,     \* history: how many times st.cache_data.clear() ran
    runs,       \* script runs started in this session
    pc,         \* where the script run stands
    auto,       \* the "Auto-refresh (5 min)" checkbox as this run reads it
    refresh,    \* the "Refresh All News" button as this run reads it
    search,     \* the "Search News" button as this run reads it
    todo,       \* the fetch_* calls this run still has to make, in tab order
    call,       \* the fetch_* call in progress
    ret,        \* what the last fetch_* call gave its caller
    items,      \* display_news: the items it was given
    qty,        \* display_news: the requested count
    idx,        \* display_news: the loop index of the item last processed
    rows,       \* display_news: the rows collected so far
    lastIn,     \* display_news: what happened to the item last processed
    lastOut,    \* display_news: what was rendered for the item last processed
    run,        \* history of the current script run
    unit        \* a helper called on its own: its input and its outputs

vars == <<rssCache, wrapCache, netAt, clears, runs, pc, auto, refresh,
          search, todo, call, ret, items, qty, idx, rows, lastIn, lastOut,
          run, unit>>

sessionVars == <<rssCache, wrapCache, netAt, clears, runs, pc, auto,
                 refresh, search, todo, call, ret, items, qty, idx, rows,
                 lastIn, lastOut, run>>

-----------------------------------------------------------------------------
(* Bounds of the model *)

MaxTextLen == 3
MaxKwLen == 2
MaxItems == 6
MaxRuns == 3
PolSpan == 2

(* Constants of the program *)

ttl == 300
AutoRefreshSecs == 300
RetryDelayMs == 1500
MaxAttempts == 3
SummaryChars == 300
\* a polarity of [-1, 1] is counted in units of 1/PolScale: 0.15 is 1500
PolScale == 10000
PolThreshold == 1500
TrendSliderMin == 5
SearchSliderMin == 3

Min(a, b) == IF a < b THEN a ELSE b

ttlTicks == (ttl * 1000) \div RetryDelayMs
AutoRefreshTicks == (AutoRefreshSecs * 1000) \div RetryDelayMs

RECURSIVE SeqsUpTo(_, _)
SeqsUpTo(S, n) ==
    IF n = 0 THEN {<<>>}
    ELSE LET shorter == SeqsUpTo(S, n - 1)
         IN  shorter \cup {Append(s, c) : s \in shorter, c \in S}

-----------------------------------------------------------------------------
(* highlight *)

Chars == {"a", "A", " ", "*"}

Lower(c) == IF c = "A" THEN "a" ELSE c

IsSpace(c) == c = " "

RECURSIVE LStrip(_)
LStrip(s) == IF s # <<>> /\ IsSpace(Head(s)) THEN LStrip(Tail(s)) ELSE s

RECURSIVE RStrip(_)
RStrip(s) ==
    IF s # <<>> /\ IsSpace(s[Len(s)]) THEN RStrip(SubSeq(s, 1, Len(s) - 1)) ELSE s

Strip(s) == RStrip(LStrip(s))

\* the pattern matches text at position i, ignoring case
MatchAt(text, pat, i) ==
    /\ i + Len(pat) - 1 <= Len(text)
    /\ \A j \in 1..Len(pat) : Lower(text[i + j - 1]) = Lower(pat[j])

Bold(s) == <<"*", "*">> \o s \o <<"*", "*">>

\* re.sub('(pat)', '**\1**', text, flags=IGNORECASE) from position i on, pat a literal
RECURSIVE ReSub(_, _, _)
ReSub(text, pat, i) ==
    IF i > Len(text) THEN (IF pat = <<>> THEN Bold(<<>>) ELSE <<>>)
    ELSE IF pat = <<>> THEN Bold(<<>>) \o <<text[i]>> \o ReSub(text, pat, i + 1)
    ELSE IF MatchAt(text, pat, i)
         THEN Bold(SubSeq(text, i, i + Len(pat) - 1)) \o ReSub(text, pat, i + Len(pat))
         ELSE <<text[i]>> \o ReSub(text, pat, i + 1)

\* the same without flags=re.IGNORECASE
MatchAtCs(text, pat, i) ==
    /\ i + Len(pat) - 1 <= Len(text)
    /\ \A j \in 1..Len(pat) : text[i + j - 1] = pat[j]

RECURSIVE ReSubCs(_, _, _)
ReSubCs(text, pat, i) ==
    IF i > Len(text) THEN (IF pat = <<>> THEN Bold(<<>>) ELSE <<>>)
    ELSE IF pat = <<>> THEN Bold(<<>>) \o <<text[i]>> \o ReSubCs(text, pat, i + 1)
    ELSE IF MatchAtCs(text, pat, i)
         THEN Bold(SubSeq(text, i, i + Len(pat) - 1)) \o ReSubCs(text, pat, i + Len(pat))
         ELSE <<text[i]>> \o ReSubCs(text, pat, i + 1)

highlight_cs(text, kw) ==
    IF kw = <<>> \/ text = <<>> THEN text
    ELSE ReSubCs(text, Strip(kw), 1)

highlight(text, kw) ==
    IF kw = <<>> \/ text = <<>> THEN text
    ELSE ReSub(text, Strip(kw), 1)

-----------------------------------------------------------------------------
(* get_sentiment *)

Positive == "Positive"
Negative == "Negative"
Neutral  == "Neutral"
Labels == {Positive, Negative, Neutral}

\* TextBlob(text).sentiment.polarity: a value of [-1, 1] in units of 1/PolScale, or an exception
Blob(raised, pol) == [raised |-> raised, pol |-> pol]

\* the same with the thresholds included
get_sentiment_ge(text, blob) ==
    IF text = <<>> THEN Neutral
    ELSE IF blob.raised THEN Neutral
    ELSE IF blob.pol >= PolThreshold THEN Positive
    ELSE IF blob.pol <= -PolThreshold THEN Negative
    ELSE Neutral

get_sentiment(text, blob) ==
    IF text = <<>> THEN Neutral
    ELSE IF blob.raised THEN Neutral
    ELSE IF blob.pol > PolThreshold THEN Positive
    ELSE IF blob.pol < -PolThreshold THEN Negative
    ELSE Neutral

-----------------------------------------------------------------------------
(* safe_article_parse *)

ParseErrorSummary == <<"Summary not available due to parsing error.">>
NoContentSummary == <<"No content available.">>
Ellipsis == <<"...">>
NoneImage == "None"

Str(n) == [i \in 1..n |-> "x"]

\* What newspaper's Article gives for a link: the step that raises, if any, and the
\* summary, text and top_image it extracts otherwise.
Article(fails, summary, text, top_image) ==
    [fails |-> fails, summary |-> summary, text |-> text, top_image |-> top_image]

Parsed(summary, image) == [summary |-> summary, image |-> image]

\* the same with the slice one character too long
safe_article_parse_long(art) ==
    IF art.fails # "none" THEN Parsed(ParseErrorSummary, NoneImage)
    ELSE Parsed(IF art.summary # <<>> THEN art.summary
                ELSE IF art.text # <<>>
                     THEN SubSeq(art.text, 1, Min(SummaryChars + 1, Len(art.text))) \o Ellipsis
                     ELSE NoContentSummary,
                art.top_image)

safe_article_parse(art) ==
    IF art.fails # "none" THEN Parsed(ParseErrorSummary, NoneImage)
    ELSE Parsed(IF art.summary # <<>> THEN art.summary
                ELSE IF art.text # <<>>
                     THEN SubSeq(art.text, 1, Min(SummaryChars, Len(art.text))) \o Ellipsis
                     ELSE NoContentSummary,
                art.top_image)

-----------------------------------------------------------------------------
(* fetch_news_poster *)

IsHttp(link) == link \in {"http://img", "https://img"}

\* what st.image is given: the article's image or the static placeholder
fetch_news_poster(poster_link, loads) ==
    IF poster_link # NoneImage /\ poster_link # "" /\ IsHttp(poster_link) /\ loads
    THEN "image"
    ELSE "placeholder"

-----------------------------------------------------------------------------
(* The helpers called on their own: the input is drawn, the helper applied *)

Texts == SeqsUpTo(Chars, MaxTextLen)
Keywords == SeqsUpTo(Chars, MaxKwLen)

Polarities ==
    {-PolScale, 0, PolScale}
        \cup ((PolThreshold - PolSpan)..(PolThreshold + PolSpan))
        \cup ((-PolThreshold - PolSpan)..(-PolThreshold + PolSpan))

Blobs == {Blob(FALSE, p) : p \in Polarities} \cup {Blob(TRUE, 0)}

ArticleSteps == {"download", "parse", "nlp"}
TopImages == {"", "/rel.png", "http://img"}
Bodies == {<<>>, Str(2), Str(SummaryChars), Str(SummaryChars + 1)}
Summaries == {<<>>, Str(1)}

Articles ==
    {Article(f, s, t, im) :
        f \in ArticleSteps \cup {"none"}, s \in Summaries, t \in Bodies, im \in TopImages}

UnitInputs ==
    {[fn |-> "highlight", text |-> t, kw |-> k, done |-> 0, out |-> <<>>, out2 |-> <<>>] :
        t \in Texts, k \in Keywords}
    \cup {[fn |-> "get_sentiment", text |-> t, blob |-> b, done |-> 0, out |-> ""] :
        t \in {<<>>, Str(1)}, b \in Blobs}
    \cup {[fn |-> "safe_article_parse", art |-> a, done |-> 0,
           out |-> Parsed(<<>>, NoneImage)] : a \in Articles}
    \cup {[fn |-> "fetch_news_poster", link |-> l, loads |-> ld, done |-> 0, out |-> ""] :
        l \in TopImages \cup {NoneImage}, ld \in BOOLEAN}

ApplyHighlight ==
    /\ unit.fn = "highlight" /\ unit.done = 0
    /\ unit' = [unit EXCEPT !.done = 1, !.out = highlight(unit.text, unit.kw)]
    /\ UNCHANGED sessionVars

ReapplyHighlight ==
    /\ unit.fn = "highlight" /\ unit.done = 1
    /\ unit' = [unit EXCEPT !.done = 2, !.out2 = highlight(unit.out, unit.kw)]
    /\ UNCHANGED sessionVars

ApplySentiment ==
    /\ unit.fn = "get_sentiment" /\ unit.done = 0
    /\ unit' = [unit EXCEPT !.done = 1, !.out = get_sentiment(unit.text, unit.blob)]
    /\ UNCHANGED sessionVars

ApplyParse ==
    /\ unit.fn = "safe_article_parse" /\ unit.done = 0
    /\ unit' = [unit EXCEPT !.done = 1, !.out = safe_article_parse(unit.art)]
    /\ UNCHANGED sessionVars

ApplyPoster ==
    /\ unit.fn = "fetch_news_poster" /\ unit.done = 0
    /\ unit' = [unit EXCEPT !.done = 1, !.out = fetch_news_poster(unit.link, unit.loads)]
    /\ UNCHANGED sessionVars

NextUnits ==
    \/ ApplyHighlight
    \/ ReapplyHighlight
    \/ ApplySentiment
    \/ ApplyParse
    \/ ApplyPoster

-----------------------------------------------------------------------------
(* The feed URLs and the cached fetch functions *)

Categories == {<<"WORLD">>}
Topics == {<<"a", " ", "A">>}

UpperAtom(c) == IF c = "a" THEN "A" ELSE c
Upper(s) == [i \in 1..Len(s) |-> UpperAtom(s[i])]

\* urllib.parse.quote_plus on the atoms of a keyword
QuoteAtom(c) ==
    IF c = " " THEN <<"+">>
    ELSE IF c = "*" THEN <<"%", "2", "A">>
    ELSE <<c>>

RECURSIVE quote_plus(_)
quote_plus(s) == IF s = <<>> THEN <<>> ELSE QuoteAtom(Head(s)) \o quote_plus(Tail(s))

TopCall == [fn |-> "fetch_top_news", arg |-> <<>>]
CatCall(c) == [fn |-> "fetch_category_news", arg |-> c]
SearchCall(k) == [fn |-> "fetch_news_search_topic", arg |-> k]

Calls == {TopCall} \cup {CatCall(c) : c \in Categories} \cup {SearchCall(k) : k \in Topics}

UrlOf(c) ==
    IF c.fn = "fetch_top_news" THEN <<"https://news.google.com/news/rss">>
    ELSE IF c.fn = "fetch_category_news"
         THEN <<"https://news.google.com/news/rss/headlines/section/topic/">> \o Upper(c.arg)
         ELSE <<"https://news.google.com/rss/search?q=">> \o quote_plus(c.arg)

Urls == {UrlOf(c) : c \in Calls}

\* The XML a feed answers with: a channel node and n <item> nodes
Doc(u, n) ==
    [i \in 1..(n + 1) |->
        IF i = 1 THEN [tag |-> "channel", src |-> u, id |-> 0]
        ELSE [tag |-> "item", src |-> u, id |-> i - 1]]

IsItem(node) == node.tag = "item"

\* xml.find_all('item')
find_all_items(doc) == SelectSeq(doc, IsItem)

\* what fetch_rss returns: the parsed document, or None
Xml(doc) == [ok |-> TRUE, doc |-> doc]
NoneXml == [ok |-> FALSE, doc |-> <<>>]

\* xml.find_all('item') if xml else []
ItemsOf(xml) == IF xml.ok THEN find_all_items(xml.doc) ELSE <<>>

\* What one urlopen + read + parse can end in: the document, or an exception
Ok(doc) == [kind |-> "ok", doc |-> doc]
Exc(kind) == [kind |-> kind, doc |-> <<>>]

\* connection error, HTTP error status, timeout while connecting (URLError);
\* timeout while reading the body, body rejected by the parser (not URLError)
ExcKinds == {"URLError", "HTTPError", "URLError(timeout)", "socket.timeout", "ParserRejectedMarkup"}

\* except (URLError, HTTPError)
IsCaught(kind) == kind \in {"URLError", "HTTPError", "URLError(timeout)"}

Responses(u, maxItems) ==
    {Ok(Doc(u, n)) : n \in 0..maxItems} \cup {Exc(k) : k \in ExcKinds}

-----------------------------------------------------------------------------
(* st.cache_data(ttl=300) *)

\* an entry: the value, how long ago it was stored and (history) how long ago and
\* after how many clears the value came from the network
NoEntry(v) == [full |-> FALSE, val |-> v, age |-> 0, obtained |-> 0, gen |-> 0]
Entry(v, obtained, gen) ==
    [full |-> TRUE, val |-> v, age |-> 0, obtained |-> obtained, gen |-> gen]

AgeCap == 2 * ttlTicks
Older(age, d) == Min(age + d, AgeCap)

\* with an entry still served at the instant it expires and after
Live_forever(e) == e.full

\* with the function not memoized
Live_never(e) == FALSE

\* an entry is served while it is younger than the time-to-live
Live(e) == e.full /\ e.age < ttlTicks

\* d ticks pass: the entries age, and an expired entry is gone
Aged(cache, empty, d) ==
    [k \in DOMAIN cache |->
        LET e == [cache[k] EXCEPT !.age = Older(@, d), !.obtained = Older(@, d)]
        IN  IF Live(e) THEN e ELSE NoEntry(empty)]

AgedNet(net, d) ==
    [u \in DOMAIN net |->
        IF net[u].known THEN [net[u] EXCEPT !.age = Older(@, d)] ELSE net[u]]

EmptyRss == [u \in Urls |-> NoEntry(NoneXml)]
EmptyWrap == [c \in Calls |-> NoEntry(<<>>)]

\* st.cache_data.clear(): every entry of every cached function
ClearedRss == EmptyRss
ClearedWrap == EmptyWrap

NoNet == [known |-> FALSE, failed |-> FALSE, age |-> 0, gen |-> 0]
NoCall == [key |-> TopCall, url |-> UrlOf(TopCall), attempt |-> 0, http |-> 0, warns |-> 0]
NoRet ==
    [valid |-> FALSE, raised |-> FALSE, key |-> TopCall, items |-> <<>>, http |-> 0,
     warns |-> 0, errlog |-> FALSE, age |-> 0, gen |-> 0]
\* errors: the "Error loading news item" messages of the display_news call under way
NoRun ==
    [slept |-> 0, cleared |-> FALSE, fetched |-> FALSE, rendered |-> FALSE,
     crashed |-> FALSE, errors |-> 0]

Returned(c, its, http, warns, errlog, age, gen) ==
    [valid |-> TRUE, raised |-> FALSE, key |-> c, items |-> its, http |-> http,
     warns |-> warns, errlog |-> errlog, age |-> age, gen |-> gen]

Raised(c, http, warns) ==
    [valid |-> TRUE, raised |-> TRUE, key |-> c, items |-> <<>>, http |-> http,
     warns |-> warns, errlog |-> FALSE, age |-> 0, gen |-> clears]

-----------------------------------------------------------------------------
(* main(): the sidebar *)

\* the widget the user touched: a checkbox, a button, or one that changes nothing here
Events == {"other", "auto", "refresh", "search"}

\* a script run starts, reading the widgets as the event left them
NewRun(ev) ==
    /\ runs < MaxRuns
    /\ runs' = runs + 1
    /\ auto' = (IF ev = "auto" THEN ~auto ELSE auto)
    /\ refresh' = (ev = "refresh")
    /\ search' = (ev = "search")
    /\ run' = NoRun
    /\ pc' = "sidebar"
    /\ todo' = <<>>
    /\ UNCHANGED <<rssCache, wrapCache, netAt, clears, call, ret, items, qty,
                   idx, rows, lastIn, lastOut, unit>>

\* the user acts on a widget of the page at rest
UserAction ==
    /\ pc = "idle"
    /\ \E ev \in Events : NewRun(ev)

\* st.rerun(): the run starts over.  What the user did while the run was under way
\* (a click during time.sleep is delivered with the rerun) is read by the new run.
st_rerun ==
    /\ pc = "rerun"
    /\ \E ev \in Events : NewRun(ev)

Waits == {ttlTicks - 2, ttlTicks}

\* time passes while the page is at rest
Wait ==
    /\ pc = "idle"
    /\ runs < MaxRuns
    /\ \E d \in Waits :
        /\ rssCache' = Aged(rssCache, NoneXml, d)
        /\ wrapCache' = Aged(wrapCache, <<>>, d)
        /\ netAt' = AgedNet(netAt, d)
    /\ UNCHANGED <<clears, runs, pc, auto, refresh, search, todo, call, ret,
                   items, qty, idx, rows, lastIn, lastOut, run, unit>>

TabCalls(c, k) ==
    <<TopCall, CatCall(c)>> \o (IF search THEN <<SearchCall(k)>> ELSE <<>>)

\* with the auto-refresh checkbox not looked at
sidebar_next_noauto == IF refresh THEN "rerun" ELSE "fetch"

\* where the sidebar leaves the run: the button first, then the checkbox
sidebar_next == IF refresh THEN "rerun" ELSE IF auto THEN "autosleep" ELSE "fetch"

main_sidebar ==
    /\ pc = "sidebar"
    /\ pc' = sidebar_next
    /\ IF refresh
       THEN /\ rssCache' = ClearedRss
            /\ wrapCache' = ClearedWrap
            /\ clears' = clears + 1
            /\ run' = [run EXCEPT !.cleared = TRUE]
       ELSE UNCHANGED <<rssCache, wrapCache, clears, run>>
    /\ IF pc' = "fetch"
       THEN \E c \in Categories, k \in Topics : todo' = TabCalls(c, k)
       ELSE todo' = <<>>
    /\ UNCHANGED <<netAt, runs, auto, refresh, search, call, ret, items, qty, idx,
                   rows, lastIn, lastOut, unit>>

\* time.sleep(300); st.rerun()
main_auto_refresh ==
    /\ pc = "autosleep"
    /\ rssCache' = Aged(rssCache, NoneXml, AutoRefreshTicks)
    /\ wrapCache' = Aged(wrapCache, <<>>, AutoRefreshTicks)
    /\ netAt' = AgedNet(netAt, AutoRefreshTicks)
    /\ run' = [run EXCEPT !.slept = AutoRefreshTicks]
    /\ pc' = "rerun"
    /\ UNCHANGED <<clears, runs, auto, refresh, search, todo, call, ret, items,
                   qty, idx, rows, lastIn, lastOut, unit>>

-----------------------------------------------------------------------------
(* fetch_top_news / fetch_category_news / fetch_news_search_topic and fetch_rss *)

\* fetch_rss's body returns xml: both caches store, the wrapper returns its items
fetch_rss_return(xml, http, warns, errlog) ==
    /\ rssCache' = [rssCache EXCEPT ![call.url] = Entry(xml, 0, clears)]
    /\ wrapCache' = [wrapCache EXCEPT ![call.key] = Entry(ItemsOf(xml), 0, clears)]
    /\ netAt' = [netAt EXCEPT ![call.url] =
                    [known |-> TRUE, failed |-> ~xml.ok, age |-> 0, gen |-> clears]]
    /\ ret' = Returned(call.key, ItemsOf(xml), http, warns, errlog, 0, clears)
    /\ call' = NoCall
    /\ pc' = "display"

\* the call at the head of the tabs: served by the wrapper's cache, by fetch_rss's
\* cache, or by fetch_rss's body
fetch_news ==
    /\ pc = "fetch"
    /\ todo # <<>>
    /\ LET c == Head(todo)
           u == UrlOf(c)
       IN  /\ run' = [run EXCEPT !.fetched = TRUE]
           /\ IF Live(wrapCache[c])
              THEN /\ ret' = Returned(c, wrapCache[c].val, 0, 0, FALSE,
                                      wrapCache[c].obtained, wrapCache[c].gen)
                   /\ pc' = "display"
                   /\ UNCHANGED <<wrapCache, call>>
              ELSE IF Live(rssCache[u])
              THEN /\ wrapCache' = [wrapCache EXCEPT ![c] =
                          Entry(ItemsOf(rssCache[u].val), rssCache[u].obtained, rssCache[u].gen)]
                   /\ ret' = Returned(c, ItemsOf(rssCache[u].val), 0, 0, FALSE,
                                      rssCache[u].obtained, rssCache[u].gen)
                   /\ pc' = "display"
                   /\ UNCHANGED call
              ELSE /\ call' = [key |-> c, url |-> u, attempt |-> 0, http |-> 0, warns |-> 0]
                   /\ ret' = NoRet
                   /\ pc' = "attempt"
                   /\ UNCHANGED wrapCache
    /\ UNCHANGED <<rssCache, netAt, clears, runs, auto, refresh, search, todo,
                   items, qty, idx, rows, lastIn, lastOut, unit>>

\* the last pass of "for attempt in range(3)"
LastPass(attempt) == attempt >= MaxAttempts - 1

\* one pass of "for attempt in range(3)": urlopen, read, parse
fetch_rss(maxItems) ==
    /\ pc = "attempt"
    /\ \E resp \in Responses(call.url, maxItems) :
        IF resp.kind = "ok"
        THEN /\ fetch_rss_return(Xml(resp.doc), call.http + 1, call.warns, FALSE)
             /\ UNCHANGED <<run, todo>>
        ELSE IF IsCaught(resp.kind)
        THEN IF ~LastPass(call.attempt)
             THEN /\ call' = [call EXCEPT !.http = @ + 1, !.warns = @ + 1]
                  /\ pc' = "sleep"
                  /\ UNCHANGED <<rssCache, wrapCache, netAt, ret, run, todo>>
             ELSE /\ fetch_rss_return(NoneXml, call.http + 1, call.warns + 1, TRUE)
                  /\ UNCHANGED <<run, todo>>
        ELSE \* the exception leaves fetch_rss, its wrapper and main(); run_app shows the banner
             /\ ret' = Raised(call.key, call.http + 1, call.warns)
             /\ call' = NoCall
             /\ run' = [run EXCEPT !.crashed = TRUE]
             /\ todo' = <<>>
             /\ pc' = "idle"
             /\ UNCHANGED <<rssCache, wrapCache, netAt>>
    /\ UNCHANGED <<clears, runs, auto, refresh, search, items, qty, idx, rows,
                   lastIn, lastOut, unit>>

\* time.sleep(1.5), then the next pass
fetch_rss_sleep ==
    /\ pc = "sleep"
    /\ rssCache' = Aged(rssCache, NoneXml, 1)
    /\ wrapCache' = Aged(wrapCache, <<>>, 1)
    /\ netAt' = AgedNet(netAt, 1)
    /\ call' = [call EXCEPT !.attempt = @ + 1]
    /\ pc' = "attempt"
    /\ UNCHANGED <<clears, runs, auto, refresh, search, todo, ret, items, qty,
                   idx, rows, lastIn, lastOut, run, unit>>

-----------------------------------------------------------------------------
(* display_news *)

\* what happens to one item: the article behind its link, the polarity TextBlob
\* computes, whether the image loads, and the st.* call that raises, if any
ItemIn(art, blob, loads, render) ==
    [art |-> art, blob |-> blob, loads |-> loads, render |-> render]

GoodArticle == Article("none", Str(1), Str(2), "http://img")
DeadArticle == Article("download", <<>>, <<>>, "")

NoIn == ItemIn(GoodArticle, Blob(FALSE, 0), TRUE, "ok")
NoOut == [item |-> 0, image |-> "none", error |-> FALSE]

Row(item, summary, sentiment) ==
    [item |-> item.id, Summary |-> summary, Sentiment |-> sentiment]

\* with the whole feed taken
Selected_all(its, q) == its

\* items[:qty]
Selected(its, q) == SubSeq(its, 1, Min(q, Len(its)))

\* with the row appended before the expander is rendered
display_news_body_early(item, in) ==
    IF in.render = "title"
    THEN [rows |-> <<>>, out |-> [item |-> item.id, image |-> "none", error |-> TRUE]]
    ELSE LET p == safe_article_parse(in.art)
             s == get_sentiment(p.summary, in.blob)
             img == fetch_news_poster(p.image, in.loads)
         IN  [rows |-> <<Row(item, p.summary, s)>>,
              out |-> [item |-> item.id, image |-> img, error |-> in.render # "ok"]]

\* the body of the loop for one item: the rows it adds and what it renders
display_news_body(item, in) ==
    IF in.render = "title"
    THEN [rows |-> <<>>, out |-> [item |-> item.id, image |-> "none", error |-> TRUE]]
    ELSE LET p == safe_article_parse(in.art)
             s == get_sentiment(p.summary, in.blob)
             img == fetch_news_poster(p.image, in.loads)
         IN  IF in.render = "expander"
             THEN [rows |-> <<>>, out |-> [item |-> item.id, image |-> img, error |-> TRUE]]
             ELSE [rows |-> <<Row(item, p.summary, s)>>,
                   out |-> [item |-> item.id, image |-> img, error |-> FALSE]]

\* the slider of the tab, at its lowest
QtyChoices(c) ==
    IF c.fn = "fetch_news_search_topic" THEN {SearchSliderMin} ELSE {TrendSliderMin}

\* "if items: df = display_news(items, count) else: st.error(...)"
display_news ==
    /\ pc = "display"
    /\ rows' = <<>>
    /\ idx' = 0
    /\ lastIn' = NoIn
    /\ lastOut' = NoOut
    /\ IF ret.items # <<>>
       THEN /\ items' = ret.items
            /\ \E q \in QtyChoices(ret.key) : qty' = q
            /\ pc' = "loop"
       ELSE /\ items' = <<>>
            /\ qty' = 0
            /\ pc' = "shown"
    /\ run' = [run EXCEPT !.errors = 0]
    /\ UNCHANGED <<rssCache, wrapCache, netAt, clears, runs, auto, refresh, search,
                   todo, call, ret, unit>>

display_news_item(ins) ==
    /\ pc = "loop"
    /\ idx < Len(Selected(items, qty))
    /\ \E in \in ins :
        LET r == display_news_body(Selected(items, qty)[idx + 1], in)
        IN  /\ rows' = rows \o r.rows
            /\ lastOut' = r.out
            /\ lastIn' = in
            /\ run' = [run EXCEPT !.rendered = TRUE,
                                  !.errors = IF r.out.error THEN @ + 1 ELSE @]
    /\ idx' = idx + 1
    /\ UNCHANGED <<rssCache, wrapCache, netAt, clears, runs, pc, auto, refresh,
                   search, todo, call, ret, items, qty, unit>>

\* the loop is over: display_news returns pd.DataFrame(rows)
display_news_return ==
    /\ pc = "loop"
    /\ idx = Len(Selected(items, qty))
    /\ pc' = "shown"
    /\ UNCHANGED <<rssCache, wrapCache, netAt, clears, runs, auto, refresh, search,
                   todo, call, ret, items, qty, idx, rows, lastIn, lastOut, run, unit>>

\* on to the next tab: the tab's items and rows are no longer used
main_next_tab ==
    /\ pc = "shown"
    /\ todo' = Tail(todo)
    /\ pc' = "fetch"
    /\ ret' = NoRet
    /\ items' = <<>>
    /\ qty' = 0
    /\ idx' = 0
    /\ rows' = <<>>
    /\ lastIn' = NoIn
    /\ lastOut' = NoOut
    /\ run' = [run EXCEPT !.errors = 0]
    /\ UNCHANGED <<rssCache, wrapCache, netAt, clears, runs, auto, refresh, search,
                   call, unit>>

\* the script run reaches its end
main_return ==
    /\ pc = "fetch"
    /\ todo = <<>>
    /\ pc' = "idle"
    /\ UNCHANGED <<rssCache, wrapCache, netAt, clears, runs, auto, refresh, search,
                   todo, call, ret, items, qty, idx, rows, lastIn, lastOut, run, unit>>

-----------------------------------------------------------------------------
(* The specifications *)

NoUnit == [fn |-> "none", done |-> 0]

\* a session: the first script run starts, no widget touched
Init ==
    /\ rssCache = EmptyRss
    /\ wrapCache = EmptyWrap
    /\ netAt = [u \in Urls |-> NoNet]
    /\ clears = 0
    /\ runs = 1
    /\ pc = "sidebar"
    /\ auto = FALSE
    /\ refresh = FALSE
    /\ search = FALSE
    /\ todo = <<>>
    /\ call = NoCall
    /\ ret = NoRet
    /\ items = <<>>
    /\ qty = 0
    /\ idx = 0
    /\ rows = <<>>
    /\ lastIn = NoIn
    /\ lastOut = NoOut
    /\ run = NoRun
    /\ unit = NoUnit

SessionItems == 1

SessionIns ==
    {NoIn, ItemIn(DeadArticle, Blob(TRUE, 0), FALSE, "ok"),
     ItemIn(GoodArticle, Blob(FALSE, 0), TRUE, "expander")}

Next ==
    \/ UserAction
    \/ st_rerun
    \/ Wait
    \/ main_sidebar
    \/ main_auto_refresh
    \/ fetch_news
    \/ fetch_rss(SessionItems)
    \/ fetch_rss_sleep
    \/ display_news
    \/ display_news_item(SessionIns)
    \/ display_news_return
    \/ main_next_tab
    \/ main_return

Spec == Init /\ [][Next]_vars

\* the Trending tab of the run that follows a click on "Refresh All News":
\* the caches are empty and fetch_top_news() is about to be called
InitPipeline ==
    /\ rssCache = EmptyRss
    /\ wrapCache = EmptyWrap
    /\ netAt = [u \in Urls |-> NoNet]
    /\ clears = 1
    /\ runs = MaxRuns
    /\ pc = "fetch"
    /\ auto = FALSE
    /\ refresh = FALSE
    /\ search = FALSE
    /\ todo = <<TopCall>>
    /\ call = NoCall
    /\ ret = NoRet
    /\ items = <<>>
    /\ qty = 0
    /\ idx = 0
    /\ rows = <<>>
    /\ lastIn = NoIn
    /\ lastOut = NoOut
    /\ run = NoRun
    /\ unit = NoUnit

PipelineIns ==
    {ItemIn(a, b, l, r) :
        a \in {GoodArticle, DeadArticle},
        b \in {Blob(TRUE, 0), Blob(FALSE, PolThreshold + 1)},
        l \in BOOLEAN,
        r \in {"ok", "title", "expander"}}

NextPipeline ==
    \/ fetch_news
    \/ fetch_rss(MaxItems)
    \/ fetch_rss_sleep
    \/ display_news
    \/ display_news_item(PipelineIns)
    \/ display_news_return
    \/ main_next_tab
    \/ main_return

SpecPipeline == InitPipeline /\ [][NextPipeline]_vars

InitUnits ==
    /\ rssCache = EmptyRss
    /\ wrapCache = EmptyWrap
    /\ netAt = [u \in Urls |-> NoNet]
    /\ clears = 0
    /\ runs = 0
    /\ pc = "unit"
    /\ auto = FALSE
    /\ refresh = FALSE
    /\ search = FALSE
    /\ todo = <<>>
    /\ call = NoCall
    /\ ret = NoRet
    /\ items = <<>>
    /\ qty = 0
    /\ idx = 0
    /\ rows = <<>>
    /\ lastIn = NoIn
    /\ lastOut = NoOut
    /\ run = NoRun
    /\ unit \in UnitInputs

SpecUnits == InitUnits /\ [][NextUnits]_vars

-----------------------------------------------------------------------------
(* The claims *)

Last(q) == q[Len(q)]

\* a fetch_* call has just returned to main() without raising
FetchReturned == ret.valid /\ ~ret.raised

\* the number of <item> nodes of a document
ItemCount(doc) == Cardinality({i \in DOMAIN doc : doc[i].tag = "item"})

\* what C1 says of a fetch that returns after running fetch_rss's body
ReturnedAsC1 ==
          LET xml == rssCache[UrlOf(ret.key)].val
          IN  IF ret.errlog
              THEN ret.items = <<>> /\ ~xml.ok /\ ret.http = 3 /\ ret.warns = 3
              ELSE /\ ret.warns = ret.http - 1
                   /\ xml.ok
                   /\ Len(ret.items) = ItemCount(xml.doc)
                   /\ \A j \in 1..Len(ret.items) : ret.items[j].id = j

\* C1: a fetch makes at most 3 HTTP attempts and stops at the first one that
\* succeeds; it returns a sequence as long as the XML obtained has <item> nodes, or
\* the empty result of a persistent failure, and that only after exactly 3 attempts.
C1_AttemptsAndLength ==
    /\ call.http <= 3
    /\ (pc = "attempt") => (call.warns = call.http /\ call.attempt = call.http)
    /\ (ret.valid /\ ret.http > 0) => (ret.http <= 3 /\ ~ret.raised /\ ReturnedAsC1)

\* the part of C1 that holds of the code: the bound on the attempts, and the result
\* of every fetch that returns
C1_WhenReturned ==
    /\ call.http <= 3
    /\ (pc = "attempt") => (call.warns = call.http /\ call.attempt = call.http)
    /\ ret.valid => ret.http <= 3
    /\ (FetchReturned /\ ret.http > 0) => ReturnedAsC1

\* C2: no exception leaves fetch_rss or its wrappers, whatever an attempt fails with.
C2_NeverRaises == ~(ret.valid /\ ret.raised)

\* C3 as stated: on any failure of the article (a step raises, or no summary and no
\* body text is extracted) safe_article_parse returns the fixed placeholder summary
\* and no image.
C3_Original ==
    (unit.fn = "safe_article_parse" /\ unit.done = 1
        /\ (unit.art.fails # "none" \/ (unit.art.summary = <<>> /\ unit.art.text = <<>>)))
    => unit.out = Parsed(ParseErrorSummary, NoneImage)

\* C3 as amended: safe_article_parse returns "Summary not available due to parsing
\* error." and None when a step raises; when nothing raises it returns the
\* extractor's top_image together with the summary, or else the first 300 characters
\* of the body text followed by "...", or else "No content available.".
C3_ParseCases ==
    (unit.fn = "safe_article_parse" /\ unit.done = 1) =>
        LET a == unit.art
        IN  IF a.fails # "none"
            THEN unit.out.summary = <<"Summary not available due to parsing error.">>
                 /\ unit.out.image = NoneImage
            ELSE /\ unit.out.image = a.top_image
                 /\ unit.out.image # NoneImage
                 /\ unit.out.summary # <<>>
                 /\ IF a.summary # <<>> THEN unit.out.summary = a.summary
                    ELSE IF a.text = <<>> THEN unit.out.summary = <<"No content available.">>
                    ELSE /\ Len(unit.out.summary) = Min(300, Len(a.text)) + 1
                         /\ \A i \in 1..Min(300, Len(a.text)) : unit.out.summary[i] = a.text[i]
                         /\ Last(unit.out.summary) = "..."

C3_Witness ==
    /\ unit.fn = "safe_article_parse" /\ unit.done = 1
    /\ unit.art.fails = "none" /\ unit.art.summary = <<>> /\ unit.art.text = <<>>
    /\ unit.art.top_image = "http://img"
    /\ unit.out = Parsed(NoContentSummary, "http://img")

\* the item last processed by the loop of display_news
Processed == pc \in {"loop", "shown"} /\ idx >= 1

SomethingFailed(in) ==
    in.art.fails # "none" \/ in.blob.raised \/ ~in.loads \/ in.render # "ok"

RowsInFeedOrder ==
    /\ \A j \in 1..Len(rows) : rows[j].item \in 1..idx
    /\ \A j \in 1..(Len(rows) - 1) : rows[j].item < rows[j + 1].item

\* C4 as stated: whatever fails for item k (extraction, sentiment, image load,
\* rendering), item k gets a record with the placeholder summary and no image.
C4_Original ==
    (Processed /\ SomethingFailed(lastIn)) =>
        /\ rows # <<>>
        /\ Last(rows).item = idx
        /\ Last(rows).Summary = ParseErrorSummary
        /\ lastOut.image = "placeholder"

\* C4 as amended: the selected items are processed one after another in feed order
\* and every one of them is processed whatever failed before; a failed extraction
\* gives the item a record with the parse-error placeholder summary and the
\* placeholder image, a failed sentiment analysis a record with the extracted summary
\* and Neutral, a failed image load the placeholder image and an unchanged record, and
\* an exception of a rendering call an error message and no record; the rows are in
\* feed order.
C4_Contained ==
    /\ (pc \in {"loop", "shown"} /\ items # <<>>) =>
          /\ idx <= Min(qty, Len(items))
          /\ RowsInFeedOrder
          /\ pc = "shown" => idx = Min(qty, Len(items))
    /\ Processed =>
          /\ lastOut.item = items[idx].id
          /\ items[idx].id = idx
          /\ IF lastIn.render # "ok"
             THEN lastOut.error /\ (rows = <<>> \/ Last(rows).item < idx)
             ELSE /\ ~lastOut.error
                  /\ rows # <<>>
                  /\ Last(rows).item = idx
                  /\ IF lastIn.art.fails # "none"
                     THEN /\ Last(rows).Summary = ParseErrorSummary
                          /\ lastOut.image = "placeholder"
                     ELSE Last(rows).Summary = lastIn.art.summary
                  /\ lastIn.blob.raised => Last(rows).Sentiment = Neutral
                  /\ ~lastIn.loads => lastOut.image = "placeholder"
                  /\ (lastIn.loads /\ lastIn.art.fails = "none") => lastOut.image = "image"

C4_Witness ==
    /\ pc = "shown" /\ idx = qty /\ Len(items) > qty
    /\ Len(rows) < idx
    /\ lastIn.render = "ok" /\ lastIn.art.fails = "download" /\ ~lastIn.loads
    /\ Last(rows).item = idx /\ Last(rows).Summary = ParseErrorSummary

ValidRecord(r) == r.Summary # <<>> /\ r.Sentiment \in {"Positive", "Negative", "Neutral"}

\* C5 as stated: a feed of n items and a count qty yield exactly min(qty, n) records,
\* whichever per-item steps fail, each with a summary and a label.
C5_Original ==
    (pc = "shown" /\ FetchReturned) =>
        /\ Len(rows) = (IF ret.items = <<>> THEN 0 ELSE Min(qty, Len(ret.items)))
        /\ \A j \in 1..Len(rows) : ValidRecord(rows[j])

\* C5 as amended: a feed of n items and a count qty yield min(qty, n) records less
\* one for each selected item whose rendering raised (it gets an error message
\* instead); failures of extraction, of sentiment analysis and of the image load
\* cost no record; each record has a summary and a label of Positive, Negative,
\* Neutral.
C5_RecordCount ==
    (pc = "shown" /\ FetchReturned) =>
        /\ Len(rows) + run.errors = (IF ret.items = <<>> THEN 0 ELSE Min(qty, Len(ret.items)))
        /\ (lastIn.render = "ok" /\ idx >= 1) => Last(rows).item = idx
        /\ \A j \in 1..Len(rows) : ValidRecord(rows[j])

C5_Witness ==
    /\ pc = "shown" /\ FetchReturned
    /\ Len(ret.items) > qty
    /\ run.errors = 0 /\ Len(rows) = qty
    /\ SomethingFailed(lastIn)

\* C6: get_sentiment gives every polarity exactly one label: Positive above 0.15,
\* Negative below -0.15, Neutral from -0.15 to 0.15, both included; an empty text
\* and a failing polarity computation give Neutral.
C6_Thresholds ==
    (unit.fn = "get_sentiment" /\ unit.done = 1) =>
        /\ unit.out \in {"Positive", "Negative", "Neutral"}
        /\ IF unit.text = <<>> \/ unit.blob.raised THEN unit.out = "Neutral"
           ELSE LET p == unit.blob.pol
                IN  /\ unit.out = "Positive" <=> 100 * p > 15 * PolScale
                    /\ unit.out = "Negative" <=> 100 * p < -15 * PolScale
                    /\ unit.out = "Neutral" <=> (100 * p <= 15 * PolScale /\ 100 * p >= -15 * PolScale)

C6_Witness ==
    /\ unit.fn = "get_sentiment" /\ unit.done = 1
    /\ unit.text # <<>> /\ ~unit.blob.raised
    /\ 100 * unit.blob.pol = 15 * PolScale
    /\ unit.out = "Neutral"

\* C7: the fetch cache is keyed by url and lives 300 s.  A fetch of a url whose
\* result came from the network less than 300 s ago, with no refresh since, returns
\* that result with no HTTP request; any other fetch (the entry expired, or "Refresh
\* All News" cleared the caches) issues an HTTP request; and no result is served
\* more than 300 s after it came from the network.
C7_ServedFresh ==
    FetchReturned =>
        /\ ret.age * RetryDelayMs <= 300 * 1000
        /\ ret.gen = clears
        /\ ret.http > 0 => ret.age = 0
        /\ \A j \in 1..Len(ret.items) : ret.items[j].src = UrlOf(ret.key)

FreshRecord(u) ==
    netAt[u].known /\ netAt[u].age * RetryDelayMs < 300 * 1000 /\ netAt[u].gen = clears

C7_FetchStep ==
    /\ (pc = "fetch" /\ todo # <<>>) =>
          LET u == UrlOf(Head(todo))
          IN  IF FreshRecord(u)
              THEN /\ pc' = "display"
                   /\ FetchReturned'
                   /\ ret'.http = 0
                   /\ ret'.age = netAt[u].age
                   /\ ret'.items = ItemsOf(rssCache[u].val)
                   /\ netAt' = netAt
              ELSE /\ pc' = "attempt"
                   /\ call'.url = u
                   /\ call'.http = 0
    /\ (pc = "attempt") => (IF pc' = "sleep" THEN call'.http ELSE ret'.http) = call.http + 1

\* C7: every state serves only results younger than the 300 s ttl and obtained
\* since the last refresh, and every fetch step hits the cache exactly when such a
\* result exists and goes to the network otherwise.
C7_CacheTTL == [](C7_ServedFresh) /\ [][C7_FetchStep]_vars

C7_Witness ==
    /\ pc = "display" /\ FetchReturned
    /\ ret.http = 0
    /\ ret.age = ttlTicks - 2
    /\ ret.items # <<>>

\* C9: once a fetch of a url has failed on all 3 attempts, a later fetch of that
\* url, less than 300 s later and with no refresh in between, returns the empty
\* result and makes no HTTP attempt.
C9_FailureMemoized ==
    [][(pc = "fetch" /\ todo # <<>>
            /\ FreshRecord(UrlOf(Head(todo))) /\ netAt[UrlOf(Head(todo))].failed)
        => (/\ pc' = "display"
            /\ FetchReturned'
            /\ ret'.items = <<>>
            /\ ret'.http = 0
            /\ call' = call
            /\ rssCache' = rssCache)]_vars

C9_Witness ==
    /\ pc = "display" /\ FetchReturned
    /\ ret.http = 0 /\ ret.items = <<>>
    /\ ret.age > 0
    /\ netAt[UrlOf(ret.key)].failed /\ netAt[UrlOf(ret.key)].age = ret.age

\* C10 as stated: while auto-refresh is enabled every script run blocks for the full
\* 300 s in the sidebar and then reruns, before the header and the tabs: no feed is
\* fetched and no article rendered, and the rerun does not clear the cache.
C10_Original ==
    /\ auto => (~run.fetched /\ ~run.rendered)
    /\ (auto /\ pc = "rerun") => (run.slept * RetryDelayMs = 300 * 1000 /\ ~run.cleared)

\* C10 as amended: while auto-refresh is enabled every script run ends in the sidebar
\* with a rerun, before the header and the tabs, so that no feed is fetched and no
\* article rendered: a run in which "Refresh All News" was clicked clears the cache
\* and reruns at once, without blocking; every other run blocks for the full 300 s
\* and then reruns without clearing the cache.
C10_AutoRefresh ==
    /\ auto => (~run.fetched /\ ~run.rendered /\ pc \in {"sidebar", "autosleep", "rerun"})
    /\ (auto /\ pc = "rerun") =>
          IF refresh
          THEN run.cleared /\ run.slept = 0
          ELSE run.slept * RetryDelayMs = 300 * 1000 /\ ~run.cleared

C10_Witness ==
    /\ auto /\ ~refresh /\ pc = "rerun"
    /\ run.slept = AutoRefreshTicks
    /\ \E c \in Calls : wrapCache[c].full = FALSE /\ netAt[UrlOf(c)].known

\* the keyword, stripped, occurs in the text when case is ignored
OccursIgnoringCase(text, kw) ==
    LET pat == Strip(kw)
        fold(c) == IF c = "A" THEN "a" ELSE c
    IN  \E i \in 1..Len(text) :
            /\ i + Len(pat) - 1 <= Len(text)
            /\ \A j \in 1..Len(pat) : fold(text[i + j - 1]) = fold(pat[j])

\* C8 as stated: highlight(highlight(t, k), k) = highlight(t, k).
C8_Original ==
    (unit.fn = "highlight" /\ unit.done = 2) => unit.out2 = unit.out

\* C8 as amended: highlight is idempotent exactly on the inputs it leaves unchanged,
\* which are the empty keyword, the empty text and a keyword that, stripped, does not
\* occur in the text when case is ignored; whenever a first application adds bold
\* markers a second one adds them again, and the result is longer by at least 4.
C8_IdempotentIffUnchanged ==
    (unit.fn = "highlight" /\ unit.done = 2) =>
        /\ unit.out = unit.text <=>
              (unit.kw = <<>> \/ unit.text = <<>> \/ ~OccursIgnoringCase(unit.text, unit.kw))
        /\ unit.out2 = unit.out <=> unit.out = unit.text
        /\ unit.out # unit.text =>
              (Len(unit.out) >= Len(unit.text) + 4 /\ Len(unit.out2) >= Len(unit.out) + 4)

C8_Witness ==
    /\ unit.fn = "highlight" /\ unit.done = 2
    /\ unit.text = <<"a", "A">> /\ unit.kw = <<"A">>
    /\ unit.out = <<"*", "*", "a", "*", "*", "*", "*", "A", "*", "*">>
    /\ Len(unit.out2) = Len(unit.out) + 8

=============================================================================
